---------------------------- MODULE Spec2Model ----------------------------
(***************************************************************************)
(* Verification development for the sta-663 tutorial notebooks.            *)
(*                                                                         *)
(* The module models the example programs of three notebooks:              *)
(*   - S07A_Parallel: the shared counter examples run on a 4-process pool  *)
(*     (count_with_value, count_with_lock, count_with_array) and the       *)
(*     start/join loops over single processes (f2, f3);                    *)
(*   - the functional programming notebook: h(n, xs=[]);                   *)
(*   - T07G_Gradient_Descent_Optimization: ewa, gd_momentum, gd2_momentum  *)
(*     and gd2_adam.                                                       *)
(*                                                                         *)
(* Every example is a specification of its own (SpecValue, SpecLock, ...)  *)
(* over the variables it uses; the variables of the other examples stay    *)
(* at their idle values.                                                   *)
(***************************************************************************)
EXTENDS Integers, Sequences, FiniteSets, TLC

(***************************************************************************)
(* Bounds of the model and constants of the programs.                      *)
(***************************************************************************)

\* Number of tasks handed to pool.map; stands for range(1000).
NTasks == 6

\* Process idents of the pool's workers are drawn from 1..MaxIdent.
MaxIdent == 6

\* Pids of the child processes are drawn from 1..MaxPid.
MaxPid == 12

\* Number of processes of the f3 loop; stands for range(int(1e2)).
NJobs == 4

\* The cells call h with n drawn from 0..MaxN, at most MaxCalls times.
MaxN == 4

MaxCalls == 5

\* ewa is called on sequences y of at most MaxLen numbers.
MaxLen == 3

\* The gradient descent functions are called with max_iter = MaxIter.
MaxIter == 2

\* The longest list of words, and the number of different words.
MaxWords == 4

NVocab == 2

\* The largest dimension of a matrix, and the most entries A and B have
\* together.
MaxDim == 2

MaxEntries == 8

\* np.sqrt is computed to the precision 1/SqrtScale (rounded down).
SqrtScale == 10

\* for i in range(10): p = mp.Process(target=f2, ...)
F2Procs == 10

\* store = mp.Array('i', [0]*10)
StoreLen == 10

\* store[os.getpid() % 10] += 1
PidMod == 10

\* Pool(processes=4)
processes == 4

\* arr = Array('i', [0]*4)
ArrLen == 4

\* ix = mp.current_process().ident % 4
IdentMod == 4

\* xs = np.arange(24), split into pairs; max_workers=4 and processes=4.
XsLen == 24

max_workers == 4

Workers == 1..processes

VARIABLES
    todo,        \* tasks of pool.map not yet handed to a worker
    completed,   \* tasks whose call has returned (results collected by map)
    pc,          \* pc[w]: where worker w is in the task it runs
    tmp,         \* tmp[w]: the value worker w read for its += 1
    val_value,   \* val.value, the shared Value('i', 0)
    lock,        \* the shared Lock: 0 when free, else the worker holding it
    arr,         \* the shared Array('i', [0]*4), indexed 0..3
    ident,       \* ident[w]: mp.current_process().ident in worker w
    writers,     \* history: writers[ix] = the workers that stored into arr[ix]
    \* --- the start/join loops over mp.Process (f2, f3)
    ppc,         \* where the parent (the notebook kernel) is
    pi,          \* the loop variable i of the parent
    counter,     \* the parent's global variable `counter` (f2)
    children,    \* the child processes started and not yet joined
    counter_value, \* counter.value of counter = mp.Value('i', 0) (f3)
    store,       \* store = mp.Array('i', [0]*10), indexed 0..9 (f3)
    \* --- h(n, xs=[])
    h_n,         \* the global n the cells pass to h
    h_defaults,  \* the list object bound to the default of xs
    h_xs,        \* the global list xs passed in h(n, xs)
    h_rets,      \* what each call h(n) so far returned, in order
    h_calls,     \* number of calls of h so far
    \* --- ewa(y, beta)
    ewa_y,       \* the argument y, a sequence of numbers
    ewa_beta,    \* the argument beta
    ewa_i,       \* the loop variable i (the iterations done so far)
    ewa_z,       \* the running value z
    ewa_zs,      \* the result array zs = np.zeros(n)
    ewa_pc,      \* "loop" while in the loop, "returned" after return zs
    \* --- gd_momentum, gd2_momentum, gd2_adam
    gd_fn,       \* the function that was called
    gd_x,        \* x: a number (gd_momentum) or a pair of numbers (gd2_*)
    gd_alpha,    \* alpha
    gd_beta1,    \* beta (gd_momentum, gd2_momentum) or beta1 (gd2_adam)
    gd_beta2,    \* beta2 (gd2_adam)
    gd_eps,      \* eps (gd2_adam)
    gd_m,        \* m (gd2_adam)
    gd_v,        \* v
    gd_i,        \* the loop variable i (the iterations done so far)
    gd_xs,       \* the result array xs, gd_xs[k + 1] being xs[k] of the code
    gd_pc,       \* "loop" while in the loop, "returned" after return xs
    \* --- ewabc(y, beta)
    bc_y,    \* the argument y, a sequence of numbers
    bc_beta, \* the argument beta
    bc_i,    \* the loop variable i (the iterations done so far)
    bc_z,    \* the running value z
    bc_zs,   \* the result array zs = np.zeros(n); an entry may hold NaN
    bc_pc,   \* "loop" while in the loop, "returned" after return zs
    \* --- ewa applied to y1, to y2 and to a*y1 + b*y2
    lin_y1,   \* the sequence y1
    lin_y2,   \* the sequence y2, as long as y1
    lin_a,    \* the scalar a
    lin_b,    \* the scalar b
    lin_beta, \* the argument beta of the three calls
    lin_rets, \* what the calls made so far returned, in call order
    \* --- dist(x, y, measure=euclid)
    eu_x,   \* the array x, integers
    eu_y,   \* the array y, as long as x
    eu_ret, \* what dist returned
    eu_pc,  \* "call" before the call, "returned" after it
    \* --- the word count x1, x2, x3, x4 over words
    wc_words, \* the list words; a word is its index in the sorted vocabulary
    wc_x1,    \* what x1 yields
    wc_x2,    \* what x2 yields: pairs of a key and its group
    wc_x3,    \* what x3 yields; an entry may be a raised TypeError
    wc_out,   \* list(x4)
    wc_pc,    \* the next cell: "x1", "x2", "x3", "x4"; then "listed" or "TypeError"
    \* --- matrix_multiply and its numba and numpy variants
    mm_fn, \* the function that was called
    mm_A,  \* the argument A, a sequence of m rows of n numbers
    mm_B,  \* the argument B, a sequence of n rows of p numbers
    mm_C,  \* the array C (the returned array once returned)
    mm_i,  \* the loop variable i
    mm_j,  \* the loop variable j
    mm_k,  \* the loop variable k
    mm_d,  \* the local d of matrix_multiply_numba2
    mm_pc, \* "loop" or "call" while running, "returned" after the return
    \* --- pool.map(f_, chunks), pool.map(f, ..., ...), pool.starmap(f, chunks)
    pm_way,       \* which of the three calls is made
    pm_tasks,     \* the argument of each task, in the order of the iterables
    pm_next,      \* how many tasks have been handed to a worker
    pm_running,   \* the tasks (by position) the workers are running
    pm_done,      \* the tasks that have finished
    pm_results,   \* the result slots
    pm_overtaken, \* whether a task finished while an earlier one was still running
    pm_out,       \* list(res)
    pm_pc         \* "map" while the pool works, "listed" after list(res)

poolVars == <<todo, completed, pc, tmp, val_value, lock, arr, ident, writers>>

procVars == <<ppc, pi, counter, children, counter_value, store>>

hVars == <<h_n, h_defaults, h_xs, h_rets, h_calls>>

ewaVars == <<ewa_y, ewa_beta, ewa_i, ewa_z, ewa_zs, ewa_pc>>

gdVars == <<gd_fn, gd_x, gd_alpha, gd_beta1, gd_beta2, gd_eps, gd_m, gd_v,
           gd_i, gd_xs, gd_pc>>

bcVars == <<bc_y, bc_beta, bc_i, bc_z, bc_zs, bc_pc>>

linVars == <<lin_y1, lin_y2, lin_a, lin_b, lin_beta, lin_rets>>

euVars == <<eu_x, eu_y, eu_ret, eu_pc>>

wcVars == <<wc_words, wc_x1, wc_x2, wc_x3, wc_out, wc_pc>>

mmVars == <<mm_fn, mm_A, mm_B, mm_C, mm_i, mm_j, mm_k, mm_d, mm_pc>>

pmVars == <<pm_way, pm_tasks, pm_next, pm_running, pm_done, pm_results, pm_overtaken, pm_out, pm_pc>>

vars == <<poolVars, procVars, hVars, ewaVars, gdVars, bcVars, linVars, euVars, wcVars, mmVars, pmVars>>

(***************************************************************************)
(* Helpers.                                                                *)
(***************************************************************************)

RECURSIVE SumFun(_, _)
\* Sum of f over the finite set S of its domain.
SumFun(f, S) ==
    IF S = {} THEN 0
    ELSE LET x == CHOOSE y \in S : TRUE
         IN  f[x] + SumFun(f, S \ {x})

\* sum(arr)
SumArr == SumFun(arr, DOMAIN arr)

(***************************************************************************)
(* Numbers of the numeric examples. A number is an exact fraction          *)
(* <<numerator, denominator>> in lowest terms with a positive denominator; *)
(* the rounding of float64 arithmetic is not modelled.                     *)
(***************************************************************************)

Abs(n) == IF n < 0 THEN -n ELSE n

RECURSIVE GCD(_, _)
GCD(a, b) == IF b = 0 THEN a ELSE GCD(b, a % b)

\* The fraction n/d (d # 0) in lowest terms.
Rat(n, d) ==
    LET g == GCD(Abs(n), Abs(d))
        sgn == IF d < 0 THEN -1 ELSE 1
    IN  <<(sgn * n) \div g, (sgn * d) \div g>>

RInt(n) == <<n, 1>>

Zero == RInt(0)

One == RInt(1)

\* a + b
RAdd(a, b) == Rat(a[1] * b[2] + b[1] * a[2], a[2] * b[2])

\* a - b
RSub(a, b) == Rat(a[1] * b[2] - b[1] * a[2], a[2] * b[2])

\* a * b
RMul(a, b) == Rat(a[1] * b[1], a[2] * b[2])

\* a / b, b # 0
RDiv(a, b) == Rat(a[1] * b[2], a[2] * b[1])

RECURSIVE IsqrtBetween(_, _, _)
\* The r with r * r <= n < (r + 1) * (r + 1), for lo * lo <= n < hi * hi,
\* by bisection.
IsqrtBetween(n, lo, hi) ==
    IF hi - lo <= 1 THEN lo
    ELSE LET mid == (lo + hi) \div 2
         IN  IF mid * mid <= n
             THEN IsqrtBetween(n, mid, hi)
             ELSE IsqrtBetween(n, lo, mid)

\* The integer square root of n, 0 <= n < 2^31.
Isqrt(n) == IsqrtBetween(n, 0, IF n < 46340 THEN n + 1 ELSE 46341)

\* floor(a * SqrtScale * SqrtScale) for a >= 0, by long division: one digit
\* of base SqrtScale at a time, so that no product leaves the 32-bit integers.
ScaledFloor(a) ==
    LET d  == a[2]
        q0 == a[1] \div d
        r0 == a[1] % d
        q1 == q0 * SqrtScale + (r0 * SqrtScale) \div d
        r1 == (r0 * SqrtScale) % d
    IN  q1 * SqrtScale + (r1 * SqrtScale) \div d

\* np.sqrt(a) for a >= 0, to the precision 1/SqrtScale.
RSqrt(a) == Rat(Isqrt(ScaledFloor(a)), SqrtScale)

RECURSIVE RPow(_, _)
\* a ** k for an integer k >= 0
RPow(a, k) == IF k = 0 THEN One ELSE RMul(a, RPow(a, k - 1))

(***************************************************************************)
(* The pool: 4 worker processes, each taking the next task when idle.      *)
(* pool.map returns once every task has been run.                          *)
(***************************************************************************)

\* The distinct idents the operating system may give the 4 workers, the
\* workers numbered in increasing order of ident.
IdentAssignments ==
    { f \in [Workers -> 1..MaxIdent] :
        \A v, w \in Workers : v < w => f[v] < f[w] }

PoolInit(idents) ==
    /\ todo = NTasks
    /\ completed = 0
    /\ pc = [w \in Workers |-> "idle"]
    /\ tmp = [w \in Workers |-> 0]
    /\ val_value = 0
    /\ lock = 0
    /\ arr = [ix \in 0..(ArrLen - 1) |-> 0]
    /\ ident \in idents
    /\ writers = [ix \in 0..(ArrLen - 1) |-> {}]

\* The pool examples are not running.
PoolIdle == PoolInit({[w \in Workers |-> w]})

\* Worker w takes the next task of the map and enters the task function.
\* (pool.map hands tasks out in chunks of ceil(len/(4*processes)) tasks: one
\* task at a time for up to 16 tasks.)
Take(w, entry) ==
    /\ pc[w] = "idle"
    /\ todo > 0
    /\ todo' = todo - 1
    /\ pc' = [pc EXCEPT ![w] = entry]

\* pool.map has returned: the `with Pool` block is left.
AllDone == todo = 0 /\ \A w \in Workers : pc[w] = "idle"

(***************************************************************************)
(* Idle values of the variables of the examples a specification does not   *)
(* run.                                                                    *)
(***************************************************************************)

ProcIdle ==
    /\ ppc = "idle"
    /\ pi = 0
    /\ counter = 0
    /\ children = {}
    /\ counter_value = 0
    /\ store = [ix \in 0..(StoreLen - 1) |-> 0]

HIdle ==
    /\ h_n = 0
    /\ h_defaults = <<>>
    /\ h_xs = <<>>
    /\ h_rets = <<>>
    /\ h_calls = 0

EwaIdle ==
    /\ ewa_y = <<>>
    /\ ewa_beta = <<0, 1>>
    /\ ewa_i = 0
    /\ ewa_z = <<0, 1>>
    /\ ewa_zs = <<>>
    /\ ewa_pc = "idle"

GdIdle ==
    /\ gd_fn = "none"
    /\ gd_x = <<0, 1>>
    /\ gd_alpha = <<0, 1>>
    /\ gd_beta1 = <<0, 1>>
    /\ gd_beta2 = <<0, 1>>
    /\ gd_eps = <<0, 1>>
    /\ gd_m = <<0, 1>>
    /\ gd_v = <<0, 1>>
    /\ gd_i = 0
    /\ gd_xs = <<>>
    /\ gd_pc = "idle"

BcIdle ==
    /\ bc_y = <<>>
    /\ bc_beta = <<0, 1>>
    /\ bc_i = 0
    /\ bc_z = <<0, 1>>
    /\ bc_zs = <<>>
    /\ bc_pc = "idle"

LinIdle ==
    /\ lin_y1 = <<>>
    /\ lin_y2 = <<>>
    /\ lin_a = <<0, 1>>
    /\ lin_b = <<0, 1>>
    /\ lin_beta = <<0, 1>>
    /\ lin_rets = <<>>

EuIdle ==
    /\ eu_x = <<>>
    /\ eu_y = <<>>
    /\ eu_ret = <<0, 1>>
    /\ eu_pc = "idle"

WcIdle ==
    /\ wc_words = <<>>
    /\ wc_x1 = <<>>
    /\ wc_x2 = <<>>
    /\ wc_x3 = <<>>
    /\ wc_out = <<>>
    /\ wc_pc = "idle"

MmIdle ==
    /\ mm_fn = "none"
    /\ mm_A = <<>>
    /\ mm_B = <<>>
    /\ mm_C = <<>>
    /\ mm_i = 0
    /\ mm_j = 0
    /\ mm_k = 0
    /\ mm_d = 0
    /\ mm_pc = "idle"

PmIdle ==
    /\ pm_way = "none"
    /\ pm_tasks = <<>>
    /\ pm_next = 0
    /\ pm_running = {}
    /\ pm_done = {}
    /\ pm_results = <<>>
    /\ pm_overtaken = FALSE
    /\ pm_out = <<>>
    /\ pm_pc = "idle"

IdleExcept(group) ==
    /\ IF group = "pool" THEN TRUE ELSE PoolIdle
    /\ IF group = "proc" THEN TRUE ELSE ProcIdle
    /\ IF group = "h" THEN TRUE ELSE HIdle
    /\ IF group = "ewa" THEN TRUE ELSE EwaIdle
    /\ IF group = "gd" THEN TRUE ELSE GdIdle
    /\ IF group = "bc" THEN TRUE ELSE BcIdle
    /\ IF group = "lin" THEN TRUE ELSE LinIdle
    /\ IF group = "eu" THEN TRUE ELSE EuIdle
    /\ IF group = "wc" THEN TRUE ELSE WcIdle
    /\ IF group = "mm" THEN TRUE ELSE MmIdle
    /\ IF group = "pm" THEN TRUE ELSE PmIdle

\* The same for an example that uses several groups of variables.
IdleOutside(groups) ==
    /\ "pool" \in groups \/ PoolIdle
    /\ "proc" \in groups \/ ProcIdle
    /\ "h" \in groups \/ HIdle
    /\ "ewa" \in groups \/ EwaIdle
    /\ "gd" \in groups \/ GdIdle
    /\ "bc" \in groups \/ BcIdle
    /\ "lin" \in groups \/ LinIdle
    /\ "eu" \in groups \/ EuIdle
    /\ "wc" \in groups \/ WcIdle
    /\ "mm" \in groups \/ MmIdle
    /\ "pm" \in groups \/ PmIdle

nonPoolVars == <<procVars, hVars, ewaVars, gdVars, bcVars, linVars, euVars, wcVars, mmVars, pmVars>>

nonProcVars == <<poolVars, hVars, ewaVars, gdVars, bcVars, linVars, euVars, wcVars, mmVars, pmVars>>

nonHVars == <<poolVars, procVars, ewaVars, gdVars, bcVars, linVars, euVars, wcVars, mmVars, pmVars>>

nonEwaVars == <<poolVars, procVars, hVars, gdVars, bcVars, linVars, euVars, wcVars, mmVars, pmVars>>

nonGdVars == <<poolVars, procVars, hVars, ewaVars, bcVars, linVars, euVars, wcVars, mmVars, pmVars>>

nonBcVars == <<poolVars, procVars, hVars, ewaVars, gdVars, linVars, euVars, wcVars, mmVars, pmVars>>

nonLinVars == <<poolVars, procVars, hVars, ewaVars, gdVars, bcVars, euVars, wcVars, mmVars, pmVars>>

nonEuVars == <<poolVars, procVars, hVars, ewaVars, gdVars, bcVars, linVars, wcVars, mmVars, pmVars>>

nonWcVars == <<poolVars, procVars, hVars, ewaVars, gdVars, bcVars, linVars, euVars, mmVars, pmVars>>

nonMmVars == <<poolVars, procVars, hVars, ewaVars, gdVars, bcVars, linVars, euVars, wcVars, pmVars>>

nonPmVars == <<poolVars, procVars, hVars, ewaVars, gdVars, bcVars, linVars, euVars, wcVars, mmVars>>

\* `x += 1` on a shared ctypes object is a read followed by a write of the
\* value read plus one; `cur` is what the object holds when the write happens.
IncrementStore_Atomic(t, cur) == cur + 1

IncrementStore(t, cur) == t + 1

(***************************************************************************)
(* count_with_value: val.value += 1 with no lock around the read and the   *)
(* write.                                                                  *)
(***************************************************************************)

V_Take(w) ==
    /\ Take(w, "read")
    /\ UNCHANGED <<completed, tmp, val_value, lock, arr, ident, writers>>
    /\ UNCHANGED nonPoolVars

V_Read(w) ==
    /\ pc[w] = "read"
    /\ tmp' = [tmp EXCEPT ![w] = val_value]
    /\ pc' = [pc EXCEPT ![w] = "write"]
    /\ UNCHANGED <<todo, completed, val_value, lock, arr, ident, writers>>
    /\ UNCHANGED nonPoolVars

V_Write(w) ==
    /\ pc[w] = "write"
    /\ val_value' = IncrementStore(tmp[w], val_value)
    /\ pc' = [pc EXCEPT ![w] = "idle"]
    /\ completed' = completed + 1
    /\ UNCHANGED <<todo, tmp, lock, arr, ident, writers>>
    /\ UNCHANGED nonPoolVars

InitValue == IdleExcept("pool") /\ PoolInit({[w \in Workers |-> w]})

NextValue ==
    \E w \in Workers : V_Take(w) \/ V_Read(w) \/ V_Write(w)

SpecValue == InitValue /\ [][NextValue]_vars


\* C1: in count_with_value the race gives the wrong final count. A write
\* that lands after another worker wrote between this worker's read and its
\* write (the stored value is not the one the worker read) leaves val.value
\* below the number of tasks run, and the count never catches up: from then
\* on val.value stays below the number of tasks run.
C1_RaceLosesUpdates ==
    [][ /\ (\A w \in Workers :
              (pc[w] = "write" /\ pc'[w] = "idle" /\ tmp[w] # val_value)
                  => val_value' < completed')
        /\ (val_value < completed => val_value' < completed')
        /\ val_value' <= completed' ]_vars

\* C1 (witness): pool.map has returned and val.value is below the number of
\* tasks: an interleaving with a lost update.
C1_WrongFinalCount == AllDone /\ completed = NTasks /\ val_value < NTasks

(***************************************************************************)
(* count_with_lock: lock.acquire(); val.value += 1; lock.release().        *)
(***************************************************************************)

\* lock.acquire() returns only when the lock is free.
CanAcquire_NoBlock(l) == TRUE

CanAcquire(l) == l = 0

L_Take(w) ==
    /\ Take(w, "acquire")
    /\ UNCHANGED <<completed, tmp, val_value, lock, arr, ident, writers>>
    /\ UNCHANGED nonPoolVars

L_Acquire(w) ==
    /\ pc[w] = "acquire"
    /\ CanAcquire(lock)
    /\ lock' = w
    /\ pc' = [pc EXCEPT ![w] = "read"]
    /\ UNCHANGED <<todo, completed, tmp, val_value, arr, ident, writers>>
    /\ UNCHANGED nonPoolVars

L_Read(w) ==
    /\ pc[w] = "read"
    /\ tmp' = [tmp EXCEPT ![w] = val_value]
    /\ pc' = [pc EXCEPT ![w] = "write"]
    /\ UNCHANGED <<todo, completed, val_value, lock, arr, ident, writers>>
    /\ UNCHANGED nonPoolVars

L_Write(w) ==
    /\ pc[w] = "write"
    /\ val_value' = IncrementStore(tmp[w], val_value)
    /\ pc' = [pc EXCEPT ![w] = "release"]
    /\ UNCHANGED <<todo, completed, tmp, lock, arr, ident, writers>>
    /\ UNCHANGED nonPoolVars

L_Release(w) ==
    /\ pc[w] = "release"
    /\ lock' = 0
    /\ pc' = [pc EXCEPT ![w] = "idle"]
    /\ completed' = completed + 1
    /\ UNCHANGED <<todo, tmp, val_value, arr, ident, writers>>
    /\ UNCHANGED nonPoolVars

InitLock == IdleExcept("pool") /\ PoolInit({[w \in Workers |-> w]})

NextLock ==
    \E w \in Workers :
        L_Take(w) \/ L_Acquire(w) \/ L_Read(w) \/ L_Write(w) \/ L_Release(w)

SpecLock == InitLock /\ [][NextLock]_vars

\* C2: in count_with_lock no update is lost: when pool.map has returned,
\* val.value equals the number of tasks, and at every moment val.value counts
\* exactly the increments written so far.
C2_LockCountsEveryTask ==
    /\ AllDone => val_value = NTasks
    /\ val_value =
         completed + Cardinality({w \in Workers : pc[w] = "release"})

\* C2 (witness): pool.map has returned, every task run, with the full count.
C2_AllCounted == AllDone /\ completed = NTasks /\ val_value = NTasks

(***************************************************************************)
(* count_with_array: ix = ident % 4; arr[ix] += 1.                         *)
(***************************************************************************)

\* ix = mp.current_process().ident % 4
Slot(w) == ident[w] % IdentMod

A_Take(w) ==
    /\ Take(w, "read")
    /\ UNCHANGED <<completed, tmp, val_value, lock, arr, ident, writers>>
    /\ UNCHANGED nonPoolVars

A_Read(w) ==
    /\ pc[w] = "read"
    /\ tmp' = [tmp EXCEPT ![w] = arr[Slot(w)]]
    /\ pc' = [pc EXCEPT ![w] = "write"]
    /\ UNCHANGED <<todo, completed, val_value, lock, arr, ident, writers>>
    /\ UNCHANGED nonPoolVars

A_Write(w) ==
    /\ pc[w] = "write"
    /\ arr' = [arr EXCEPT ![Slot(w)] = IncrementStore(tmp[w], @)]
    /\ writers' = [writers EXCEPT ![Slot(w)] = @ \cup {w}]
    /\ pc' = [pc EXCEPT ![w] = "idle"]
    /\ completed' = completed + 1
    /\ UNCHANGED <<todo, tmp, val_value, lock, ident>>
    /\ UNCHANGED nonPoolVars

InitArray == IdleExcept("pool") /\ PoolInit(IdentAssignments)

NextArray ==
    \E w \in Workers : A_Take(w) \/ A_Read(w) \/ A_Write(w)

SpecArray == InitArray /\ [][NextArray]_vars

\* C3: no slot of arr is ever incremented by two different worker processes.
C3_OneWriterPerSlot ==
    \A ix \in DOMAIN writers : Cardinality(writers[ix]) <= 1

\* C4: after pool.map(count_with_array, range(1000)), sum(arr) equals the
\* number of tasks.
C4_SumIsTaskCount == AllDone => SumArr = NTasks

(***************************************************************************)
(* Counting number of jobs (1): f2 run in the parent, then in 10 child     *)
(* processes started and joined one at a time. A child starts as a copy    *)
(* of the parent's memory and runs f2 on its own copy of `counter`.        *)
(***************************************************************************)

\* p.start(): the child's memory is a copy of the parent's at that moment.
StartChild(i, pid, entry, globals) ==
    children' = children \cup
        {[i |-> i, pid |-> pid, pc |-> entry, tmp |-> 0, counter |-> globals]}

Exited_NoWait(i) == TRUE

\* p.join() returns once the child process of loop iteration i has run its
\* target to the end.
Exited(i) == \E c \in children : c.i = i /\ c.pc = "exit"

\* The children left once the child of iteration i, exited, has been joined.
Reap(i) == {c \in children : ~(c.i = i /\ c.pc = "exit")}

\* counter = 0; f2(10): the direct call, in the parent.
F2_DirectCall ==
    /\ ppc = "check_call"
    /\ counter' = counter + 1
    /\ ppc' = "checked"
    /\ UNCHANGED <<pi, children, counter_value, store>>
    /\ UNCHANGED nonProcVars

\* counter = 0, the first line of the cell with the loop.
F2_LoopReset ==
    /\ ppc = "checked"
    /\ counter' = 0
    /\ pi' = 0
    /\ ppc' = "start"
    /\ UNCHANGED <<children, counter_value, store>>
    /\ UNCHANGED nonProcVars

\* p = mp.Process(target=f2, args=(i,)); p.start()
F2_Start ==
    /\ ppc = "start"
    /\ pi < F2Procs
    /\ \E pid \in 1..MaxPid :
         /\ \A c \in children : c.pid # pid
         /\ StartChild(pi, pid, "run", counter)
    /\ ppc' = "join"
    /\ UNCHANGED <<pi, counter, counter_value, store>>
    /\ UNCHANGED nonProcVars

\* f2 in a child: global counter; counter = counter + 1, on the child's copy.
F2_ChildRun_Shared ==
    /\ \E c \in children :
         /\ c.pc = "run"
         /\ children' = (children \ {c}) \cup {[c EXCEPT !.pc = "exit"]}
    /\ counter' = counter + 1
    /\ UNCHANGED <<ppc, pi, counter_value, store>>
    /\ UNCHANGED nonProcVars

F2_ChildRun ==
    /\ \E c \in children :
         /\ c.pc = "run"
         /\ children' = (children \ {c}) \cup
                {[c EXCEPT !.counter = c.counter + 1, !.pc = "exit"]}
    /\ UNCHANGED <<ppc, pi, counter, counter_value, store>>
    /\ UNCHANGED nonProcVars

\* p.join(), and the next iteration of the loop.
F2_Join ==
    /\ ppc = "join"
    /\ Exited(pi)
    /\ children' = Reap(pi)
    /\ pi' = pi + 1
    /\ ppc' = "start"
    /\ UNCHANGED <<counter, counter_value, store>>
    /\ UNCHANGED nonProcVars

\* The loop is over.
F2_LoopEnd ==
    /\ ppc = "start"
    /\ pi = F2Procs
    /\ ppc' = "done"
    /\ UNCHANGED <<pi, counter, children, counter_value, store>>
    /\ UNCHANGED nonProcVars

\* After `counter = 0` of the Checking cell.
InitF2 ==
    /\ IdleExcept("proc")
    /\ ppc = "check_call"
    /\ pi = 0
    /\ counter = 0
    /\ children = {}
    /\ counter_value = 0
    /\ store = [ix \in 0..(StoreLen - 1) |-> 0]

NextF2 ==
    \/ F2_DirectCall
    \/ F2_LoopReset
    \/ F2_Start
    \/ F2_ChildRun
    \/ F2_Join
    \/ F2_LoopEnd

SpecF2 == InitF2 /\ [][NextF2]_vars

\* C5: separate processes do not share global memory. The direct call f2(10)
\* raises the parent's counter from 0 to 1; during and after the loop over
\* the 10 child processes the parent's counter is still 0, while each child
\* that has run f2 holds 1 in its own copy.
C5_ParentCounterUntouched ==
    /\ ppc = "checked" => counter = 1
    /\ ppc \in {"start", "join", "done"} => counter = 0
    /\ \A c \in children : c.pc = "exit" => c.counter = 1

\* C5 (witness): the 10 children have run and been joined.
C5_LoopDone == ppc = "done" /\ pi = F2Procs /\ counter = 0

(***************************************************************************)
(* Counting number of jobs (2): f3 on a shared Value and a shared Array,   *)
(* the processes started and joined one at a time.                         *)
(***************************************************************************)

\* p = mp.Process(target=f3, args=(i, counter, store)); p.start()
F3_Start ==
    /\ ppc = "start"
    /\ pi < NJobs
    /\ \E pid \in 1..MaxPid :
         /\ \A c \in children : c.pid # pid
         /\ StartChild(pi, pid, "read_counter", 0)
    /\ ppc' = "join"
    /\ UNCHANGED <<pi, counter, counter_value, store>>
    /\ UNCHANGED nonProcVars

\* counter.value += 1, the read.
F3_ReadCounter ==
    /\ \E c \in children :
         /\ c.pc = "read_counter"
         /\ children' = (children \ {c}) \cup
                {[c EXCEPT !.tmp = counter_value, !.pc = "write_counter"]}
    /\ UNCHANGED <<ppc, pi, counter, counter_value, store>>
    /\ UNCHANGED nonProcVars

\* counter.value += 1, the write.
F3_WriteCounter ==
    /\ \E c \in children :
         /\ c.pc = "write_counter"
         /\ counter_value' = IncrementStore(c.tmp, counter_value)
         /\ children' = (children \ {c}) \cup {[c EXCEPT !.pc = "read_store"]}
    /\ UNCHANGED <<ppc, pi, counter, store>>
    /\ UNCHANGED nonProcVars

\* store[os.getpid() % 10] += 1, the read.
F3_ReadStore ==
    /\ \E c \in children :
         /\ c.pc = "read_store"
         /\ children' = (children \ {c}) \cup
                {[c EXCEPT !.tmp = store[c.pid % PidMod], !.pc = "write_store"]}
    /\ UNCHANGED <<ppc, pi, counter, counter_value, store>>
    /\ UNCHANGED nonProcVars

\* store[os.getpid() % 10] += 1, the write; f3 returns and the child exits.
F3_WriteStore ==
    /\ \E c \in children :
         /\ c.pc = "write_store"
         /\ store' = [store EXCEPT
                        ![c.pid % PidMod] = IncrementStore(c.tmp, @)]
         /\ children' = (children \ {c}) \cup {[c EXCEPT !.pc = "exit"]}
    /\ UNCHANGED <<ppc, pi, counter, counter_value>>
    /\ UNCHANGED nonProcVars

\* p.join(), and the next iteration of the loop.
F3_Join ==
    /\ ppc = "join"
    /\ Exited(pi)
    /\ children' = Reap(pi)
    /\ pi' = pi + 1
    /\ ppc' = "start"
    /\ UNCHANGED <<counter, counter_value, store>>
    /\ UNCHANGED nonProcVars

\* The loop is over: print(counter.value); print(store[:]).
F3_LoopEnd ==
    /\ ppc = "start"
    /\ pi = NJobs
    /\ ppc' = "done"
    /\ UNCHANGED <<pi, counter, children, counter_value, store>>
    /\ UNCHANGED nonProcVars

InitF3 ==
    /\ IdleExcept("proc")
    /\ ppc = "start"
    /\ pi = 0
    /\ counter = 0
    /\ children = {}
    /\ counter_value = 0
    /\ store = [ix \in 0..(StoreLen - 1) |-> 0]

NextF3 ==
    \/ F3_Start
    \/ F3_ReadCounter
    \/ F3_WriteCounter
    \/ F3_ReadStore
    \/ F3_WriteStore
    \/ F3_Join
    \/ F3_LoopEnd

SpecF3 == InitF3 /\ [][NextF3]_vars

\* The children that are between their first read and their exit.
Running == {c \in children : c.pc # "exit"}

\* sum(store)
SumStore == SumFun(store, DOMAIN store)

\* C6: with shared memory the job count works. Only one process uses
\* counter at any one time, and after the loop counter.value and the sum of
\* the entries of store both equal the number of processes run.
C6_SharedCountWorks ==
    /\ Cardinality(Running) <= 1
    /\ ppc = "done" => counter_value = NJobs /\ SumStore = NJobs

\* C6 (witness): the loop is over with every job counted, two of the
\* processes having shared one entry of store.
C6_LoopDone ==
    /\ ppc = "done"
    /\ pi = NJobs
    /\ counter_value = NJobs
    /\ \E ix \in DOMAIN store : store[ix] >= 2

(***************************************************************************)
(* h(n, xs=[]): the default list is created once, when h is defined, and   *)
(* every call without xs appends to that same list and returns it.         *)
(***************************************************************************)

\* [0, 1, ..., n-1], the values range(n) yields (none when n <= 0).
Range(n) == [i \in 1..(IF n > 0 THEN n ELSE 0) |-> i - 1]

\* The body of h: range(n) is appended to xs, and xs is returned.
h(n, xs) == xs \o Range(n)

\* The list a call without xs works on: the one list object made when
\* `def h` was run, with whatever earlier calls appended to it.
DefaultXs_Fresh(defaults) == <<>>

DefaultXs(defaults) == defaults

\* The cell `h(n)`: xs is the default list.
h_CallDefault ==
    /\ h_calls < MaxCalls
    /\ h_defaults' = h(h_n, DefaultXs(h_defaults))
    /\ h_rets' = Append(h_rets, h_defaults')
    /\ h_calls' = h_calls + 1
    /\ UNCHANGED <<h_n, h_xs>>
    /\ UNCHANGED nonHVars

\* The cell `h(n, xs)`: xs is the global list, and the default is not used.
h_CallWithXs ==
    /\ h_calls < MaxCalls
    /\ h_xs' = h(h_n, h_xs)
    /\ h_calls' = h_calls + 1
    /\ UNCHANGED <<h_n, h_defaults, h_rets>>
    /\ UNCHANGED nonHVars

\* After `def h` and the cell n = ...; xs = [1,2,3].
InitH ==
    /\ IdleExcept("h")
    /\ h_n \in 0..MaxN
    /\ h_defaults = <<>>
    /\ h_xs = <<1, 2, 3>>
    /\ h_rets = <<>>
    /\ h_calls = 0

NextH ==
    \/ h_CallDefault
    \/ h_CallWithXs

SpecH == InitH /\ [][NextH]_vars

RECURSIVE Repeat(_, _)
\* The sequence s repeated k times.
Repeat(s, k) == IF k <= 0 THEN <<>> ELSE Repeat(s, k - 1) \o s

\* C7 (as claimed): the k-th call h(n) returns a list of length k*n, which is
\* 0..n-1 repeated k times, and two successive calls return different
\* contents.
C7_Original ==
    /\ \A k \in 1..Len(h_rets) :
         /\ Len(h_rets[k]) = k * h_n
         /\ h_rets[k] = Repeat(Range(h_n), k)
    /\ \A k \in 1..(Len(h_rets) - 1) : h_rets[k] # h_rets[k + 1]

\* C7 (amended): the k-th call h(n) returns a list of length k*n, which is
\* 0..n-1 repeated k times; two successive calls return different contents
\* when n >= 1, and the same contents, the empty list, when n = 0.
C7_DefaultListPersists ==
    /\ \A k \in 1..Len(h_rets) :
         /\ Len(h_rets[k]) = k * h_n
         /\ h_rets[k] = Repeat(Range(h_n), k)
    /\ \A k \in 1..(Len(h_rets) - 1) :
         (h_rets[k] # h_rets[k + 1]) <=> (h_n >= 1)

\* C7 (witness): h(n) has been called three times with one n >= 2, calls
\* h(n, xs) in between.
C7_ThreeCalls == h_n >= 2 /\ Len(h_rets) >= 3 /\ h_calls > Len(h_rets)

(***************************************************************************)
(* ewa(y, beta): the exponentially weighted average.                       *)
(***************************************************************************)

\* The values of the entries of y.
YValues == {RInt(-1), RInt(0), RInt(2)}

\* The values of beta.
Betas == {Rat(0, 1), Rat(1, 2), Rat(9, 10), Rat(1, 1)}

\* The sequences over S of length at most n.
SeqsUpTo(S, n) == UNION {[1..k -> S] : k \in 0..n}

\* z = beta*z + (1 - beta)*y[i]**2
ewa_update_squared(z, beta, yi) ==
    RAdd(RMul(beta, z), RMul(RSub(One, beta), RMul(yi, yi)))

\* z = beta*z + (1 - beta)*y[i]
ewa_update_swapped(z, beta, yi) ==
    RAdd(RMul(RSub(One, beta), z), RMul(beta, yi))

ewa_update(z, beta, yi) ==
    RAdd(RMul(beta, z), RMul(RSub(One, beta), yi))

\* n = len(y); zs = np.zeros(n); z = 0
InitEwa ==
    /\ IdleExcept("ewa")
    /\ ewa_y \in SeqsUpTo(YValues, MaxLen)
    /\ ewa_beta \in Betas
    /\ ewa_i = 0
    /\ ewa_z = Zero
    /\ ewa_zs = [t \in 1..Len(ewa_y) |-> Zero]
    /\ ewa_pc = "loop"

\* One iteration of `for i in range(n)`; y[i] of the code is ewa_y[i + 1].
ewa_Step ==
    /\ ewa_pc = "loop"
    /\ ewa_i < Len(ewa_y)
    /\ ewa_z' = ewa_update(ewa_z, ewa_beta, ewa_y[ewa_i + 1])
    /\ ewa_zs' = [ewa_zs EXCEPT ![ewa_i + 1] = ewa_z']
    /\ ewa_i' = ewa_i + 1
    /\ UNCHANGED <<ewa_y, ewa_beta, ewa_pc>>
    /\ UNCHANGED nonEwaVars

\* return zs
ewa_Return ==
    /\ ewa_pc = "loop"
    /\ ewa_i = Len(ewa_y)
    /\ ewa_pc' = "returned"
    /\ UNCHANGED <<ewa_y, ewa_beta, ewa_i, ewa_z, ewa_zs>>
    /\ UNCHANGED nonEwaVars

NextEwa ==
    \/ ewa_Step
    \/ ewa_Return

SpecEwa == InitEwa /\ [][NextEwa]_vars

RECURSIVE LeakySum(_, _, _, _)
\* Sum over k = 1..upto of beta^(t-k) * (1 - beta) * y[k]: what the values
\* y[1..upto] contribute at index t, each scaled by beta^n * (1 - beta) for
\* its n = t - k steps in the past.
LeakySum(y, beta, t, upto) ==
    IF upto = 0 THEN Zero
    ELSE RAdd(LeakySum(y, beta, t, upto - 1),
              RMul(RMul(RPow(beta, t - upto), RSub(One, beta)), y[upto]))

\* C10: for every index t of the result, ewa(y, beta)[t] is the sum over
\* k = 0..t of beta^(t-k) * (1 - beta) * y[k]. (Entries are filled in loop
\* order; an entry not yet reached still holds the 0 of np.zeros.)
C10_EwaClosedForm ==
    \A t \in 1..Len(ewa_zs) :
        ewa_zs[t] = IF t <= ewa_i
                    THEN LeakySum(ewa_y, ewa_beta, t, t)
                    ELSE Zero

\* C10 (witness): ewa has returned the average of a sequence of MaxLen
\* entries, not all equal, for a beta strictly between 0 and 1.
C10_EwaReturned ==
    /\ ewa_pc = "returned"
    /\ Len(ewa_y) >= 3
    /\ ewa_y[1] # ewa_y[2]
    /\ ewa_y[3] # Zero
    /\ ewa_beta = Rat(9, 10)

(***************************************************************************)
(* gd_momentum and gd2_momentum: gradient descent with momentum, in one    *)
(* and in two dimensions.                                                  *)
(***************************************************************************)

\* grad(x) = 2*x, the gradient of f(x) = x**2
grad(x) == RMul(RInt(2), x)

\* grad2(x) = np.array([2*x[0], 200*x[1]]); x[0], x[1] of the code are
\* x[1], x[2] here.
grad2(x) == <<RMul(RInt(2), x[1]), RMul(RInt(200), x[2])>>

\* Arithmetic on arrays of two numbers, element by element, a number being
\* broadcast to both elements.
VScale(c, a) == <<RMul(c, a[1]), RMul(c, a[2])>>

VAdd(a, b) == <<RAdd(a[1], b[1]), RAdd(a[2], b[2])>>

VSub(a, b) == <<RSub(a[1], b[1]), RSub(a[2], b[2])>>

VMul(a, b) == <<RMul(a[1], b[1]), RMul(a[2], b[2])>>

VDiv(a, b) == <<RDiv(a[1], b[1]), RDiv(a[2], b[2])>>

VSqrt(a) == <<RSqrt(a[1]), RSqrt(a[2])>>

VAddScalar(c, a) == <<RAdd(c, a[1]), RAdd(c, a[2])>>

\* v = beta*v + (1-beta)*grad(x), on numbers
momentum_v(v, beta, g) == RAdd(RMul(beta, v), RMul(RSub(One, beta), g))

\* vc = v/(1+beta**(i+1)), on numbers
momentum_vc(v, beta, i) == RDiv(v, RAdd(One, RPow(beta, i + 1)))

\* The values of the arguments.
Alphas == {Rat(1, 10), Rat(1, 2)}

GdBetas == {Rat(0, 1), Rat(1, 2), Rat(9, 10)}

X0s == {RInt(1), RInt(-1), RInt(3)}

X0s2 == {<<RInt(-1), RInt(-1)>>, <<RInt(1), RInt(0)>>, <<RInt(2), RInt(1)>>}

\* xs = np.zeros(1 + max_iter); xs[0] = x; v = 0
InitMomentum ==
    /\ IdleExcept("gd")
    /\ gd_fn \in {"gd_momentum", "gd2_momentum"}
    /\ gd_x \in (IF gd_fn = "gd_momentum" THEN X0s ELSE X0s2)
    /\ gd_alpha \in Alphas
    /\ gd_beta1 \in GdBetas
    /\ gd_beta2 = Zero
    /\ gd_eps = Zero
    /\ gd_m = Zero
    /\ gd_v = (IF gd_fn = "gd_momentum" THEN Zero ELSE <<Zero, Zero>>)
    /\ gd_i = 0
    /\ gd_xs = [k \in 1..(1 + MaxIter) |->
                  IF k = 1 THEN gd_x
                  ELSE IF gd_fn = "gd_momentum" THEN Zero ELSE <<Zero, Zero>>]
    /\ gd_pc = "loop"

\* One iteration of the loop of gd_momentum.
gd_momentum_Step ==
    /\ gd_fn = "gd_momentum"
    /\ gd_pc = "loop"
    /\ gd_i < MaxIter
    /\ gd_v' = momentum_v(gd_v, gd_beta1, grad(gd_x))
    /\ LET vc == momentum_vc(gd_v', gd_beta1, gd_i)
       IN  gd_x' = RSub(gd_x, RMul(gd_alpha, vc))
    /\ gd_xs' = [gd_xs EXCEPT ![gd_i + 2] = gd_x']
    /\ gd_i' = gd_i + 1
    /\ UNCHANGED <<gd_fn, gd_alpha, gd_beta1, gd_beta2, gd_eps, gd_m, gd_pc>>
    /\ UNCHANGED nonGdVars

\* One iteration of the loop of gd2_momentum.
gd2_momentum_Step ==
    /\ gd_fn = "gd2_momentum"
    /\ gd_pc = "loop"
    /\ gd_i < MaxIter
    /\ LET g == grad2(gd_x)
       IN  gd_v' = <<momentum_v(gd_v[1], gd_beta1, g[1]),
                     momentum_v(gd_v[2], gd_beta1, g[2])>>
    /\ LET vc == <<momentum_vc(gd_v'[1], gd_beta1, gd_i),
                   momentum_vc(gd_v'[2], gd_beta1, gd_i)>>
       IN  gd_x' = VSub(gd_x, VScale(gd_alpha, vc))
    /\ gd_xs' = [gd_xs EXCEPT ![gd_i + 2] = gd_x']
    /\ gd_i' = gd_i + 1
    /\ UNCHANGED <<gd_fn, gd_alpha, gd_beta1, gd_beta2, gd_eps, gd_m, gd_pc>>
    /\ UNCHANGED nonGdVars

\* return xs
gd_Return ==
    /\ gd_pc = "loop"
    /\ gd_i = MaxIter
    /\ gd_pc' = "returned"
    /\ UNCHANGED <<gd_fn, gd_x, gd_alpha, gd_beta1, gd_beta2, gd_eps, gd_m,
                   gd_v, gd_i, gd_xs>>
    /\ UNCHANGED nonGdVars

NextMomentum ==
    \/ gd_momentum_Step
    \/ gd2_momentum_Step
    \/ gd_Return

SpecMomentum == InitMomentum /\ [][NextMomentum]_vars

\* C8: at every iteration of gd_momentum and gd2_momentum the position
\* changes by exactly -alpha times the velocity v computed in that iteration:
\* x = (x before the iteration) - alpha * v.
C8_PositionMovesByAlphaV ==
    gd_i >= 1 =>
        gd_x = (IF gd_fn = "gd_momentum"
                THEN RSub(gd_xs[gd_i], RMul(gd_alpha, gd_v))
                ELSE VSub(gd_xs[gd_i], VScale(gd_alpha, gd_v)))

(***************************************************************************)
(* gd2_adam.                                                               *)
(***************************************************************************)

\* The values of eps.
Epsilons == {Rat(1, 10), Rat(1, 1)}

AdamBetas == {Rat(0, 1), Rat(1, 2)}

\* The values of x: starting points whose gradients stay small.
AdamX0s ==
    {<<RInt(1), RInt(0)>>, <<RInt(-1), Rat(1, 100)>>, <<Rat(1, 2), Rat(-1, 200)>>}

\* xs = np.zeros((1 + max_iter, x.shape[0])); xs[0, :] = x; m = 0; v = 0
InitAdam ==
    /\ IdleExcept("gd")
    /\ gd_fn = "gd2_adam"
    /\ gd_x \in AdamX0s
    /\ gd_alpha \in Alphas
    /\ gd_beta1 \in AdamBetas
    /\ gd_beta2 \in AdamBetas
    /\ gd_eps \in Epsilons
    /\ gd_m = <<Zero, Zero>>
    /\ gd_v = <<Zero, Zero>>
    /\ gd_i = 0
    /\ gd_xs = [k \in 1..(1 + MaxIter) |->
                  IF k = 1 THEN gd_x ELSE <<Zero, Zero>>]
    /\ gd_pc = "loop"

\* mc = m/(1+beta1**(i+1)); the code computes it and does not use it.
adam_mc(m, beta1, i) ==
    LET d == RAdd(One, RPow(beta1, i + 1)) IN <<RDiv(m[1], d), RDiv(m[2], d)>>

\* vc = v/(1+beta2**(i+1))
adam_vc(v, beta2, i) ==
    LET d == RAdd(One, RPow(beta2, i + 1)) IN <<RDiv(v[1], d), RDiv(v[2], d)>>

\* x - alpha * num / (eps + np.sqrt(vc)), element by element
adam_x(x, alpha, num, eps, vc) ==
    VSub(x, VDiv(VScale(alpha, num), VAddScalar(eps, VSqrt(vc))))

\* One iteration of the loop of gd2_adam.
gd2_adam_Step ==
    /\ gd_fn = "gd2_adam"
    /\ gd_pc = "loop"
    /\ gd_i < MaxIter
    /\ LET g == grad2(gd_x)
       IN  /\ gd_m' = VAdd(VScale(gd_beta1, gd_m),
                           VScale(RSub(One, gd_beta1), g))
           /\ gd_v' = VAdd(VScale(gd_beta2, gd_v),
                           VScale(RSub(One, gd_beta2), VMul(g, g)))
    /\ LET mc == adam_mc(gd_m', gd_beta1, gd_i)
           vc == adam_vc(gd_v', gd_beta2, gd_i)
       IN  gd_x' = adam_x(gd_x, gd_alpha, gd_m', gd_eps, vc)
    /\ gd_xs' = [gd_xs EXCEPT ![gd_i + 2] = gd_x']
    /\ gd_i' = gd_i + 1
    /\ UNCHANGED <<gd_fn, gd_alpha, gd_beta1, gd_beta2, gd_eps, gd_pc>>
    /\ UNCHANGED nonGdVars

NextAdam ==
    \/ gd2_adam_Step
    \/ gd_Return

SpecAdam == InitAdam /\ [][NextAdam]_vars

\* Bias correction as the notebook defines it: a/(1 - beta^t), on both
\* elements.
BiasCorrected(a, beta, t) ==
    LET d == RSub(One, RPow(beta, t)) IN <<RDiv(a[1], d), RDiv(a[2], d)>>

\* C9: the step gd2_adam applies at iteration i (t = i+1) uses the bias
\* corrected moment estimates: x = (x before the iteration)
\* - alpha*mc/(eps + sqrt(vc)) with mc = m/(1 - beta1^t), vc = v/(1 - beta2^t).
C9_AdamStepIsBiasCorrected ==
    gd_i >= 1 =>
        gd_x = adam_x(gd_xs[gd_i], gd_alpha,
                      BiasCorrected(gd_m, gd_beta1, gd_i), gd_eps,
                      BiasCorrected(gd_v, gd_beta2, gd_i))

-----------------------------------------------------------------------------
\* ewabc(y, beta) of T07G, run next to ewa(y, beta) on the same arguments.

\* What the division of two float64 values gives when the divisor is 0.
NaN == "nan"

Inf(z) == IF z[1] > 0 THEN "inf" ELSE "-inf"

\* zc = z/(1 - beta**(i+1))
ewabc_correct_plus(z, beta, i) ==
    RDiv(z, RAdd(One, RPow(beta, i + 1)))

ewabc_correct(z, beta, i) ==
    LET d == RSub(One, RPow(beta, i + 1))
    IN  IF d # Zero THEN RDiv(z, d)
        ELSE IF z = Zero THEN NaN ELSE Inf(z)

\* Both functions are called with the same y and beta;
\* n = len(y); zs = np.zeros(n); z = 0 in each.
InitEwabc ==
    /\ IdleOutside({"ewa", "bc"})
    /\ bc_y \in SeqsUpTo(YValues, MaxLen)
    /\ bc_beta \in Betas
    /\ bc_i = 0
    /\ bc_z = Zero
    /\ bc_zs = [t \in 1..Len(bc_y) |-> Zero]
    /\ bc_pc = "loop"
    /\ ewa_y = bc_y
    /\ ewa_beta = bc_beta
    /\ ewa_i = 0
    /\ ewa_z = Zero
    /\ ewa_zs = [t \in 1..Len(ewa_y) |-> Zero]
    /\ ewa_pc = "loop"

\* One iteration of `for i in range(n)`; y[i] of the code is bc_y[i + 1].
ewabc_Step ==
    /\ bc_pc = "loop"
    /\ bc_i < Len(bc_y)
    /\ bc_z' = ewa_update(bc_z, bc_beta, bc_y[bc_i + 1])
    /\ bc_zs' = [bc_zs EXCEPT ![bc_i + 1] = ewabc_correct(bc_z', bc_beta, bc_i)]
    /\ bc_i' = bc_i + 1
    /\ UNCHANGED <<bc_y, bc_beta, bc_pc>>
    /\ UNCHANGED nonBcVars

\* return zs
ewabc_Return ==
    /\ bc_pc = "loop"
    /\ bc_i = Len(bc_y)
    /\ bc_pc' = "returned"
    /\ UNCHANGED <<bc_y, bc_beta, bc_i, bc_z, bc_zs>>
    /\ UNCHANGED nonBcVars

NextEwabc ==
    \/ ewa_Step
    \/ ewa_Return
    \/ ewabc_Step
    \/ ewabc_Return

SpecEwabc == InitEwabc /\ [][NextEwabc]_vars

\* y[i] = c at every index i.
IsConstant(y, c) == \A t \in 1..Len(y) : y[t] = c

\* C11: for a constant input y[i] = c and 0 < beta < 1, every entry ewabc
\* has filled is c, and every entry ewa has filled, at index i, is
\* c * (1 - beta^(i+1)).
C11_BiasCorrectionRecoversConstant ==
    \A c \in YValues :
        (IsConstant(bc_y, c) /\ bc_beta[1] > 0 /\ bc_beta[1] < bc_beta[2]) =>
            /\ \A t \in 1..bc_i : bc_zs[t] = c
            /\ \A t \in 1..ewa_i :
                  ewa_zs[t] = RMul(c, RSub(One, RPow(ewa_beta, t)))

\* Both functions have returned for a constant non-zero input of the largest
\* length and a beta strictly between 0 and 1, where ewa is still biased.
C11_BothReturned ==
    /\ bc_pc = "returned"
    /\ ewa_pc = "returned"
    /\ Len(bc_y) = MaxLen
    /\ IsConstant(bc_y, RInt(2))
    /\ bc_beta = Rat(9, 10)
    /\ ewa_zs[MaxLen] # RInt(2)

-----------------------------------------------------------------------------
\* ewa(y, beta) of T07G as a function, applied to y1, to y2 and to
\* a*y1 + b*y2.

RECURSIVE ewa_loop(_, _, _)
\* The value of z after the first i iterations of the loop, from z = 0.
ewa_loop(y, beta, i) ==
    IF i = 0 THEN Zero
    ELSE ewa_update(ewa_loop(y, beta, i - 1), beta, y[i])

\* zs as returned: zs[i] is the z of iteration i.
ewa(y, beta) == [t \in 1..Len(y) |-> ewa_loop(y, beta, t)]

\* The scalars a and b.
Scalars == {RInt(-1), RInt(2)}

\* a*y1 + b*y2 on arrays of one length, element by element.
LinComb(a, y1, b, y2) ==
    [t \in 1..Len(y1) |-> RAdd(RMul(a, y1[t]), RMul(b, y2[t]))]

\* The arguments of the three calls, in call order.
lin_args == <<lin_y1, lin_y2, LinComb(lin_a, lin_y1, lin_b, lin_y2)>>

InitLinear ==
    /\ IdleExcept("lin")
    /\ \E n \in 0..MaxLen :
          /\ lin_y1 \in [1..n -> YValues]
          /\ lin_y2 \in [1..n -> YValues]
    /\ lin_a \in Scalars
    /\ lin_b \in Scalars
    /\ lin_beta \in Betas
    /\ lin_rets = <<>>

\* The next call ewa(y, beta) returns.
ewa_Call ==
    /\ Len(lin_rets) < Len(lin_args)
    /\ lin_rets' = Append(lin_rets, ewa(lin_args[Len(lin_rets) + 1], lin_beta))
    /\ UNCHANGED <<lin_y1, lin_y2, lin_a, lin_b, lin_beta>>
    /\ UNCHANGED nonLinVars

NextLinear ==
    \/ ewa_Call

SpecLinear == InitLinear /\ [][NextLinear]_vars

\* C12: ewa is linear: once the three calls have returned, the result for
\* a*y1 + b*y2 equals a times the result for y1 plus b times the result for
\* y2, element by element.
C12_EwaIsLinear ==
    Len(lin_rets) = 3 =>
        lin_rets[3] = LinComb(lin_a, lin_rets[1], lin_b, lin_rets[2])

\* The three calls have returned for two different inputs of the largest
\* length whose combination is not the zero sequence.
C12_ThreeCallsReturned ==
    /\ Len(lin_rets) = 3
    /\ Len(lin_y1) = MaxLen
    /\ lin_y1 # lin_y2
    /\ lin_a = RInt(-1)
    /\ lin_b = RInt(2)
    /\ lin_beta = Rat(9, 10)
    /\ \A t \in 1..MaxLen : lin_rets[3][t] # Zero

-----------------------------------------------------------------------------
\* dist(x, y, measure=euclid) of part_000.

\* The entries of x and y.
Coords == {0, 3, 4}

\* np.sqrt(np.sum(x**2 + y**2))
euclid(x, y) ==
    RSqrt(RInt(SumFun([t \in 1..Len(x) |-> x[t] * x[t] + y[t] * y[t]],
                      1..Len(x))))

\* return measure(x, y), with measure=euclid
dist(x, y) == euclid(x, y)

InitEuclid ==
    /\ IdleExcept("eu")
    /\ \E n \in 0..MaxLen :
          /\ eu_x \in [1..n -> Coords]
          /\ eu_y \in [1..n -> Coords]
    /\ eu_ret = Zero
    /\ eu_pc = "call"

\* dist(x, y, measure=euclid)
dist_Call ==
    /\ eu_pc = "call"
    /\ eu_ret' = dist(eu_x, eu_y)
    /\ eu_pc' = "returned"
    /\ UNCHANGED <<eu_x, eu_y>>
    /\ UNCHANGED nonEuVars

NextEuclid ==
    \/ dist_Call

SpecEuclid == InitEuclid /\ [][NextEuclid]_vars

\* The sum over i of (x[i] - y[i])^2.
SquaredDistance(x, y) ==
    SumFun([t \in 1..Len(x) |-> (x[t] - y[t]) * (x[t] - y[t])], 1..Len(x))

\* C13: what euclid returns is the Euclidean distance, the square root of
\* the sum of (x[i] - y[i])^2; in particular it is 0 when x = y, and it is
\* the same for (x, y) and (y, x).
C13_EuclidIsDistance ==
    eu_pc = "returned" =>
        /\ eu_ret = RSqrt(RInt(SquaredDistance(eu_x, eu_y)))
        /\ eu_x = eu_y => eu_ret = Zero
        /\ eu_ret = dist(eu_y, eu_x)

-----------------------------------------------------------------------------
\* The map-reduce word count of part_000: x1, x2, x3, x4 and list(x4).
\* The iterators are lazy; each variable holds what its iterator yields when
\* list(x4) consumes it, and an exception surfaces in list(x4).

\* A Python value: a tuple (fst, snd) or an int n, held in snd.
Tuple(a, b) == [type |-> "tuple", fst |-> a, snd |-> b]

PyInt(n) == [type |-> "int", fst |-> 0, snd |-> n]

\* What an expression that raises TypeError leaves in place of a value.
TypeError == [type |-> "TypeError", fst |-> 0, snd |-> 0]

\* x1 = map(lambda x: (x, 1), words)
x1(words) == [t \in 1..Len(words) |-> Tuple(words[t], 1)]

RECURSIVE Insert(_, _)
\* s with the tuple x put before the first tuple greater than it.
Insert(x, s) ==
    IF s = <<>> THEN <<x>>
    ELSE IF x.fst < s[1].fst \/ (x.fst = s[1].fst /\ x.snd < s[1].snd)
         THEN <<x>> \o s
         ELSE <<s[1]>> \o Insert(x, Tail(s))

RECURSIVE sorted(_)
\* sorted(x1): the tuples in ascending order, equal ones in their order.
sorted(s) ==
    IF s = <<>> THEN <<>>
    ELSE Insert(s[Len(s)], sorted(SubSeq(s, 1, Len(s) - 1)))

RECURSIVE RunLen(_, _)
\* How many leading tuples of s have the key k.
RunLen(s, k) ==
    IF s = <<>> \/ s[1].fst # k THEN 0 ELSE 1 + RunLen(Tail(s), k)

RECURSIVE groupby(_)
\* it.groupby(s, key=lambda x: x[0]): one (key, group) per run of equal keys.
groupby(s) ==
    IF s = <<>> THEN <<>>
    ELSE LET n == RunLen(s, s[1].fst)
         IN  <<<<s[1].fst, SubSeq(s, 1, n)>>>> \o groupby(SubSeq(s, n + 1, Len(s)))

\* lambda a, b: a[1] + b[1]; subscripting an int raises TypeError.
reducer(a, b) ==
    IF a.type = "tuple" /\ b.type = "tuple" THEN PyInt(a.snd + b.snd)
    ELSE TypeError

RECURSIVE reduce(_)
\* reduce(f, group) without initial value: the first item is the first
\* accumulator, and a group of one item is returned as it is.
reduce(group) ==
    IF Len(group) = 1 THEN group[1]
    ELSE reducer(reduce(SubSeq(group, 1, Len(group) - 1)), group[Len(group)])

\* x3 = map(lambda x: (x[0], reduce(...)), x2)
x3(groups) == [t \in 1..Len(groups) |-> <<groups[t][1], reduce(groups[t][2])>>]

\* x4 = map(lambda x: (x[0], x[1] if isinstance(x[1], int) else x[1][1]), x3)
\* (x[1] itself for an int and x[1][1] for a tuple: snd in both cases)
x4(counts) ==
    [t \in 1..Len(counts) |->
        <<counts[t][1],
          IF counts[t][2].type = "int" THEN counts[t][2].snd
          ELSE counts[t][2].snd>>]

\* words = rhyme.split(), for any rhyme
InitWords ==
    /\ IdleExcept("wc")
    /\ wc_words \in SeqsUpTo(1..NVocab, MaxWords)
    /\ wc_x1 = <<>>
    /\ wc_x2 = <<>>
    /\ wc_x3 = <<>>
    /\ wc_out = <<>>
    /\ wc_pc = "x1"

map_x1 ==
    /\ wc_pc = "x1"
    /\ wc_x1' = x1(wc_words)
    /\ wc_pc' = "x2"
    /\ UNCHANGED <<wc_words, wc_x2, wc_x3, wc_out>>
    /\ UNCHANGED nonWcVars

groupby_x2 ==
    /\ wc_pc = "x2"
    /\ wc_x2' = groupby(sorted(wc_x1))
    /\ wc_pc' = "x3"
    /\ UNCHANGED <<wc_words, wc_x1, wc_x3, wc_out>>
    /\ UNCHANGED nonWcVars

reduce_x3 ==
    /\ wc_pc = "x3"
    /\ wc_x3' = x3(wc_x2)
    /\ wc_pc' = "x4"
    /\ UNCHANGED <<wc_words, wc_x1, wc_x2, wc_out>>
    /\ UNCHANGED nonWcVars

\* x4 = ...; list(x4): the exception of any item is the outcome of the cell.
list_x4 ==
    /\ wc_pc = "x4"
    /\ IF \E t \in 1..Len(wc_x3) : wc_x3[t][2].type = "TypeError"
       THEN wc_pc' = "TypeError" /\ wc_out' = <<>>
       ELSE wc_pc' = "listed" /\ wc_out' = x4(wc_x3)
    /\ UNCHANGED <<wc_words, wc_x1, wc_x2, wc_x3>>
    /\ UNCHANGED nonWcVars

NextWords ==
    \/ map_x1
    \/ groupby_x2
    \/ reduce_x3
    \/ list_x4

SpecWords == InitWords /\ [][NextWords]_vars

\* frequencies(words): how often each word of the list occurs in it.
Occurrences(words, w) == Cardinality({t \in 1..Len(words) : words[t] = w})

\* C14: for every list of words, list(x4) holds exactly one pair
\* (word, count) for each distinct word, the count being the number of its
\* occurrences: the content of frequencies(words).
C14_WordCountIsFrequencies ==
    wc_pc \in {"listed", "TypeError"} =>
        /\ wc_pc = "listed"
        /\ Len(wc_out) = Cardinality({wc_words[t] : t \in 1..Len(wc_words)})
        /\ \A t \in 1..Len(wc_out) :
              /\ wc_out[t][2] = Occurrences(wc_words, wc_out[t][1])
              /\ wc_out[t][2] >= 1
              /\ \A u \in 1..Len(wc_out) : wc_out[u][1] = wc_out[t][1] => u = t

-----------------------------------------------------------------------------
\* matrix_multiply, matrix_multiply_numba, matrix_multiply_numba2 and
\* matrix_multiply_numpy of S08B. @jit compiles the function it decorates
\* and leaves what it computes alone. Entries are integers; the float64
\* rounding of the sums is not modelled.

\* The entries of A and B.
Entries == {-1, 2}

Matrices(m, n) == [1..m -> [1..n -> Entries]]

\* m, n = A.shape; n, p = B.shape
Rows(A) == Len(A)

Cols(A) == Len(A[1])

LoopFns == {"matrix_multiply", "matrix_multiply_numba"}

\* c += A[i,k] * B[k, j]
mm_accumulate_assign(c, a, b) == a * b

mm_accumulate(c, a, b) == c + a * b

\* A.dot(B)
dot(A, B) ==
    [i \in 1..Rows(A) |-> [j \in 1..Cols(B) |->
        SumFun([k \in 1..Cols(A) |-> A[i][k] * B[k][j]], 1..Cols(A))]]

\* The loop variables after the innermost iteration (i, j, k), for
\* range(p) and range(n) in the two inner loops.
mm_advance(i, j, k, p, n) ==
    IF k + 1 < n THEN <<i, j, k + 1>>
    ELSE IF j + 1 < p THEN <<i, j + 1, 0>>
    ELSE <<i + 1, 0, 0>>

\* A and B are conformable; C = np.zeros((m, p)) in the three loop versions.
InitMatrix ==
    /\ IdleExcept("mm")
    /\ mm_fn \in LoopFns \cup {"matrix_multiply_numba2", "matrix_multiply_numpy"}
    /\ \E m \in 1..MaxDim, n \in 1..MaxDim, p \in 1..MaxDim :
          /\ m * n + n * p <= MaxEntries
          /\ mm_A \in Matrices(m, n)
          /\ mm_B \in Matrices(n, p)
    /\ mm_C = IF mm_fn = "matrix_multiply_numpy" THEN <<>>
              ELSE [i \in 1..Rows(mm_A) |-> [j \in 1..Cols(mm_B) |-> 0]]
    /\ mm_i = 0
    /\ mm_j = 0
    /\ mm_k = 0
    /\ mm_d = 0
    /\ mm_pc = IF mm_fn = "matrix_multiply_numpy" THEN "call" ELSE "loop"

\* One innermost iteration of matrix_multiply and matrix_multiply_numba:
\* C[i,j] += A[i,k] * B[k, j]. The code counts from 0, the model from 1.
matrix_multiply_Step ==
    /\ mm_pc = "loop"
    /\ mm_fn \in LoopFns
    /\ mm_i < Rows(mm_A)
    /\ mm_C' = [mm_C EXCEPT ![mm_i + 1][mm_j + 1] =
                   mm_accumulate(@, mm_A[mm_i + 1][mm_k + 1],
                                 mm_B[mm_k + 1][mm_j + 1])]
    /\ LET nxt == mm_advance(mm_i, mm_j, mm_k, Cols(mm_B), Cols(mm_A))
       IN  mm_i' = nxt[1] /\ mm_j' = nxt[2] /\ mm_k' = nxt[3]
    /\ UNCHANGED <<mm_fn, mm_A, mm_B, mm_d, mm_pc>>
    /\ UNCHANGED nonMmVars

\* One innermost iteration of matrix_multiply_numba2, with the d = 0.0
\* before the first k and the C[i,j] = d after the last one.
matrix_multiply_numba2_Step ==
    /\ mm_pc = "loop"
    /\ mm_fn = "matrix_multiply_numba2"
    /\ mm_i < Rows(mm_A)
    /\ mm_d' = mm_accumulate(IF mm_k = 0 THEN 0 ELSE mm_d,
                             mm_A[mm_i + 1][mm_k + 1], mm_B[mm_k + 1][mm_j + 1])
    /\ mm_C' = IF mm_k + 1 = Cols(mm_A)
               THEN [mm_C EXCEPT ![mm_i + 1][mm_j + 1] = mm_d']
               ELSE mm_C
    /\ LET nxt == mm_advance(mm_i, mm_j, mm_k, Cols(mm_B), Cols(mm_A))
       IN  mm_i' = nxt[1] /\ mm_j' = nxt[2] /\ mm_k' = nxt[3]
    /\ UNCHANGED <<mm_fn, mm_A, mm_B, mm_pc>>
    /\ UNCHANGED nonMmVars

\* return C, after the loops
matrix_multiply_Return ==
    /\ mm_pc = "loop"
    /\ mm_i = Rows(mm_A)
    /\ mm_pc' = "returned"
    /\ UNCHANGED <<mm_fn, mm_A, mm_B, mm_C, mm_i, mm_j, mm_k, mm_d>>
    /\ UNCHANGED nonMmVars

\* return A.dot(B)
matrix_multiply_numpy_Call ==
    /\ mm_pc = "call"
    /\ mm_C' = dot(mm_A, mm_B)
    /\ mm_pc' = "returned"
    /\ UNCHANGED <<mm_fn, mm_A, mm_B, mm_i, mm_j, mm_k, mm_d>>
    /\ UNCHANGED nonMmVars

NextMatrix ==
    \/ matrix_multiply_Step
    \/ matrix_multiply_numba2_Step
    \/ matrix_multiply_Return
    \/ matrix_multiply_numpy_Call

SpecMatrix == InitMatrix /\ [][NextMatrix]_vars

\* C15: whichever of the four functions was called, what it returns for an
\* m x n matrix A and an n x p matrix B is the m x p matrix C with
\* C[i,j] = sum over k < n of A[i,k]*B[k,j].
C15_ReturnsMatrixProduct ==
    mm_pc = "returned" =>
        /\ Len(mm_C) = Rows(mm_A)
        /\ \A i \in 1..Rows(mm_A) :
              /\ Len(mm_C[i]) = Cols(mm_B)
              /\ \A j \in 1..Cols(mm_B) :
                    mm_C[i][j] = SumFun([k \in 1..Rows(mm_B) |->
                                            mm_A[i][k] * mm_B[k][j]],
                                        1..Rows(mm_B))

\* A loop version has returned the product of a 2 x 2 and a 2 x 2 matrix
\* that has a negative and a positive entry.
C15_LoopReturned ==
    /\ mm_pc = "returned"
    /\ mm_fn = "matrix_multiply_numba2"
    /\ Rows(mm_A) = 2 /\ Cols(mm_A) = 2 /\ Cols(mm_B) = 2
    /\ mm_C[1][1] < 0
    /\ mm_C[2][2] > 0

-----------------------------------------------------------------------------
\* The three ways S07A maps the two-argument f over pairs of numbers.
\* A pool hands the tasks to its workers in order, one task at a time (the
\* chunk size of the three calls is 1), the workers finish in any order,
\* and map and starmap give the results in the order of the tasks.

\* def f(a, b): return a + b
f(a, b) == a + b

\* def f_(args): return f(*args)
f_(args) == f(args[1], args[2])

\* np.arange(n)
arange(n) == [t \in 1..n |-> t - 1]

\* np.array_split(xs, sections): the first len(xs) % sections chunks have
\* one element more than the len(xs) // sections of the others.
array_split(xs, sections) ==
    LET size == Len(xs) \div sections
        extra == Len(xs) % sections
        start(q) == (q - 1) * size + (IF q - 1 < extra THEN q - 1 ELSE extra)
        len(q) == size + (IF q <= extra THEN 1 ELSE 0)
    IN  [q \in 1..sections |-> SubSeq(xs, start(q) + 1, start(q) + len(q))]

\* list(range(start, stop, step)) for step > 0
StepRange(start, stop, step) ==
    [t \in 1..((stop - start + step - 1) \div step) |-> start + (t - 1) * step]

\* zip of two iterables, as map with two iterables pairs their items.
zip(s, t) ==
    [q \in 1..(IF Len(s) < Len(t) THEN Len(s) ELSE Len(t)) |-> <<s[q], t[q]>>]

\* xs = np.arange(24); chunks = np.array_split(xs, xs.shape[0]//2)
chunks == array_split(arange(XsLen), XsLen \div 2)

Ways == {"map_f_", "map_f", "starmap_f"}

\* The items each call maps over.
Tasks(way) ==
    IF way = "map_f"
    THEN zip(StepRange(0, XsLen, 2), StepRange(1, XsLen, 2))
    ELSE chunks

\* What a worker computes for one item: f_(item), f(a, b) or f(*item).
Apply(way, item) ==
    IF way = "map_f_" THEN f_(item) ELSE f(item[1], item[2])

\* The slot a finished task's result goes to.
ResultSlot_Completion(k, done) == Cardinality(done) + 1

ResultSlot(k, done) == k

InitMap ==
    /\ IdleExcept("pm")
    /\ pm_way \in Ways
    /\ pm_tasks = Tasks(pm_way)
    /\ pm_next = 0
    /\ pm_running = {}
    /\ pm_done = {}
    /\ pm_results = [k \in 1..Len(pm_tasks) |-> 0]
    /\ pm_overtaken = FALSE
    /\ pm_out = <<>>
    /\ pm_pc = "map"

\* An idle worker takes the next task.
map_Take ==
    /\ pm_pc = "map"
    /\ pm_next < Len(pm_tasks)
    /\ Cardinality(pm_running) < max_workers
    /\ pm_next' = pm_next + 1
    /\ pm_running' = pm_running \cup {pm_next + 1}
    /\ UNCHANGED <<pm_way, pm_tasks, pm_done, pm_results, pm_overtaken,
                   pm_out, pm_pc>>
    /\ UNCHANGED nonPmVars

\* A worker finishes its task and the result is stored.
map_Finish ==
    /\ pm_pc = "map"
    /\ \E k \in pm_running :
          /\ pm_results' = [pm_results EXCEPT ![ResultSlot(k, pm_done)] =
                               Apply(pm_way, pm_tasks[k])]
          /\ pm_running' = pm_running \ {k}
          /\ pm_done' = pm_done \cup {k}
          /\ pm_overtaken' = (pm_overtaken \/ \E e \in pm_running : e < k)
    /\ UNCHANGED <<pm_way, pm_tasks, pm_next, pm_out, pm_pc>>
    /\ UNCHANGED nonPmVars

\* list(res), once every result is there
map_List ==
    /\ pm_pc = "map"
    /\ pm_done = 1..Len(pm_tasks)
    /\ pm_out' = pm_results
    /\ pm_pc' = "listed"
    /\ UNCHANGED <<pm_way, pm_tasks, pm_next, pm_running, pm_done, pm_results,
                   pm_overtaken>>
    /\ UNCHANGED nonPmVars

NextMap ==
    \/ map_Take
    \/ map_Finish
    \/ map_List

SpecMap == InitMap /\ [][NextMap]_vars

\* C16: each of the three calls gives the same list for the 12 pairs
\* (0,1), (2,3), ..., (22,23): result k (from 0) is 4k + 1, in whatever
\* order the workers finished; while the pool works, the result of every
\* finished task is already the one of its position.
C16_SameOrderedResults ==
    /\ \A k \in pm_done : pm_results[k] = 4 * (k - 1) + 1
    /\ pm_pc = "listed" =>
          /\ Len(pm_out) = 12
          /\ \A k \in 0..11 : pm_out[k + 1] = 4 * k + 1

\* starmap has listed its results after some task finished before an
\* earlier one.
C16_ListedAfterOvertaking ==
    /\ pm_pc = "listed"
    /\ pm_way = "starmap_f"
    /\ pm_overtaken

=============================================================================
